---- MODULE Spec2Model ----
(***************************************************************************)
(* Model of the error-tracking bridge of github.com/XiBao/logger:          *)
(*   - the zlogsentry Writer (Write / WriteLevel / Close) in its three     *)
(*     source variants, with the level table, the level parser and the     *)
(*     event parser it relies on;                                          *)
(*   - the stack trimmer (common.Stacktrace / zlogsentry.newStacktrace),   *)
(*     modelled statement by statement.                                    *)
(***************************************************************************)
EXTENDS Integers, Sequences, FiniteSets, TLC

\* ------------------------------------------------------------------ bounds
\* Largest number of key/value pairs in a serialized record.
MaxFields == 2
\* Largest number of frames in a captured stack.
MaxFrames == 4
\* deepest nesting of a value given to the converter
MaxDepth == 2
\* Largest number of fields added to a logging Context in one log call.
MaxCtxFields == 1

\* ------------------------------------------------- zerolog.Level (an int8)
TraceLevel == -1
DebugLevel == 0
InfoLevel == 1
WarnLevel == 2
ErrorLevel == 3
FatalLevel == 4
PanicLevel == 5
NoLevel == 6
Disabled == 7
\* a level value outside the named ones ("handled as numbers")
OtherLevel == Disabled + 1

LevelValues == TraceLevel..OtherLevel

\* sentry.Level is a string; the zero value is the empty string
LevelDebug == "debug"
LevelInfo == "info"
LevelWarning == "warning"
LevelError == "error"
LevelFatal == "fatal"
NoSentryLevel == ""

\* the table with panic kept as its own severity and trace given one
levelsMappingPanicKept ==
  (DebugLevel :> LevelDebug) @@ (InfoLevel :> LevelInfo) @@
  (WarnLevel :> LevelWarning) @@ (ErrorLevel :> LevelError) @@
  (FatalLevel :> LevelFatal) @@ (PanicLevel :> "panic") @@
  (TraceLevel :> LevelDebug)

\* var levelsMapping = map[zerolog.Level]sentry.Level{...}
levelsMapping ==
  (DebugLevel :> LevelDebug) @@ (InfoLevel :> LevelInfo) @@
  (WarnLevel :> LevelWarning) @@ (ErrorLevel :> LevelError) @@
  (FatalLevel :> LevelFatal) @@ (PanicLevel :> LevelFatal)

\* the two-value map read `v, ok := levelsMapping[lvl]`
MapLevel(lvl) ==
  IF lvl \in DOMAIN levelsMapping
    THEN [level |-> levelsMapping[lvl], ok |-> TRUE]
    ELSE [level |-> NoSentryLevel, ok |-> FALSE]

\* --------------------------------------------------- serialized records
\* A value of a record: a JSON string or a JSON object.  For an object, s is
\* the text of its "error" member.
StrVal(s) == [t |-> "string", s |-> s]
ObjVal(s) == [t |-> "object", s |-> s]

LevelFieldName == "level"
MessageFieldName == "message"
ErrorFieldName == "error"
ErrorStackFieldName == "error.stack"

\* the level strings a record can carry: the nine names zerolog writes, a
\* number, and a word that is no level
LevelStrings ==
  {"trace", "debug", "info", "warn", "error", "fatal", "panic", "disabled",
   "", "8", "bogus"}

Pair(k, v) == [key |-> k, value |-> v]

\* members other than the level member
BodyChoices ==
  {Pair(MessageFieldName, StrVal("boom")),
   Pair(ErrorFieldName, StrVal("bad thing")),
   Pair(ErrorStackFieldName, ObjVal("deep")),
   Pair(ErrorStackFieldName, StrVal("not-json")),
   Pair("category", StrVal("db"))}

SeqsUpTo(S, n) == UNION {[1..k -> S] : k \in 0..n}

\* zerolog writes the level member first, and omits it for NoLevel
LevelPrefixes == {<<>>} \cup {<<Pair(LevelFieldName, StrVal(s))>> : s \in LevelStrings}

\* A record handed to the sink: a JSON object (its members in order), or a
\* byte string that is no JSON object.
ObjectDoc(fs) == [object |-> TRUE, fields |-> fs]
ScalarDoc == [object |-> FALSE, fields |-> <<>>]
Documents ==
  {ObjectDoc(p \o b) : p \in LevelPrefixes, b \in SeqsUpTo(BodyChoices, MaxFields)}
    \cup {ScalarDoc}

\* len(data): the braces, and per member the quotes, colon, comma and texts
RECURSIVE FieldsLen(_)
FieldsLen(fs) ==
  IF fs = <<>> THEN 0
  ELSE 6 + Len(Head(fs).key) + Len(Head(fs).value.s) + FieldsLen(Tail(fs))

DataLen(data) == IF data.object THEN 2 + FieldsLen(data.fields) ELSE 8

\* gjson.GetBytes(data, path).String(): the first member with that key, the
\* empty string when there is none
RECURSIVE GetString(_, _)
GetString(fs, path) ==
  IF fs = <<>> THEN ""
  ELSE IF Head(fs).key = path THEN Head(fs).value.s
  ELSE GetString(Tail(fs), path)

\* gjson.Result.String() of a member value: a string is its text, an object
\* its raw JSON
ValueString(v) == IF v.t = "string" THEN v.s ELSE "{\"error\":\"" \o v.s \o "\"}"

\* gjson.ParseBytes(data).ForEach: the members of an object in order; a value
\* that is no object is visited once under the empty key
ForEachMembers(data) ==
  IF data.object THEN data.fields ELSE <<Pair("", StrVal("not-json"))>>

\* zerolog.ParseLevel: the nine level names (NoLevel is the empty string),
\* then strconv.Atoi within int8, else an error
ParseLevel(levelStr) ==
  CASE levelStr = "trace" -> [lvl |-> TraceLevel, err |-> FALSE]
    [] levelStr = "debug" -> [lvl |-> DebugLevel, err |-> FALSE]
    [] levelStr = "info" -> [lvl |-> InfoLevel, err |-> FALSE]
    [] levelStr = "warn" -> [lvl |-> WarnLevel, err |-> FALSE]
    [] levelStr = "error" -> [lvl |-> ErrorLevel, err |-> FALSE]
    [] levelStr = "fatal" -> [lvl |-> FatalLevel, err |-> FALSE]
    [] levelStr = "panic" -> [lvl |-> PanicLevel, err |-> FALSE]
    [] levelStr = "disabled" -> [lvl |-> Disabled, err |-> FALSE]
    [] levelStr = "" -> [lvl |-> NoLevel, err |-> FALSE]
    [] levelStr = "8" -> [lvl |-> OtherLevel, err |-> FALSE]
    [] OTHER -> [lvl |-> NoLevel, err |-> TRUE]

\* func (w *Writer) parseLogLevel(data []byte) (zerolog.Level, error)
parseLogLevel(data) == ParseLevel(GetString(data.fields, LevelFieldName))

\* ------------------------------------------------------- the event parser
EmptyMap == [k \in {} |-> ""]
Put(m, k, v) == (k :> v) @@ m

\* how an exception entry got its trace
FreshTrace == "newStacktrace"
EmbeddedTrace == "embedded"
NoTrace == "nil"

Exc(value, trace) == [Value |-> value, Stacktrace |-> trace]

\* json.Unmarshal([]byte(value.Raw), &e) into ErrWithStackTrace: an object
\* decodes, any other JSON value is an UnmarshalTypeError
Unmarshal(v) ==
  IF v.t = "object"
    THEN [ok |-> TRUE, Err |-> v.s, error |-> ""]
    ELSE [ok |-> FALSE, Err |-> "",
          error |-> "json: cannot unmarshal " \o v.t \o " into Go value of type zlogsentry.ErrWithStackTrace"]

\* the locals of parseLogEvent before the ForEach
ParseStart ==
  [Message |-> "", Level |-> NoSentryLevel, Exception |-> <<>>,
   errExept |-> <<>>, isStack |-> FALSE, payload |-> EmptyMap]

\* the body of the ForEach callback of parseLogEvent, for one member
ParseMember(st, kv) ==
  CASE kv.key = MessageFieldName ->
         [st EXCEPT !.Message = ValueString(kv.value)]
    [] kv.key = ErrorFieldName ->
         [st EXCEPT !.errExept = Append(@, Exc(ValueString(kv.value), FreshTrace))]
    [] kv.key = ErrorStackFieldName ->
         LET e == Unmarshal(kv.value) IN
         IF ~e.ok
           THEN [st EXCEPT !.Level = LevelError,
                           !.Exception = Append(@, Exc(e.error, NoTrace)),
                           !.Message = "Error unmarshal: " \o ValueString(kv.value)]
           ELSE [st EXCEPT !.Exception = Append(@, Exc(e.Err, EmbeddedTrace)),
                           !.isStack = TRUE]
    [] OTHER ->
         [st EXCEPT !.payload = Put(@, kv.key, ValueString(kv.value))]

RECURSIVE ParseMembers(_, _)
ParseMembers(st, fs) ==
  IF fs = <<>> THEN st ELSE ParseMembers(ParseMember(st, Head(fs)), Tail(fs))

\* parseLogEvent without its last statement, the one that installs errExept
parseLogEventDropsErrExept(data) ==
  LET st == ParseMembers(ParseStart, ForEachMembers(data)) IN
  [ok |-> TRUE,
   event |->
     [Message |-> st.Message,
      Level |-> st.Level,
      Exception |-> st.Exception,
      Contexts |-> IF DOMAIN st.payload # {} THEN Put(EmptyMap, "payload", st.payload) ELSE EmptyMap,
      Extra |-> EmptyMap]]

\* parseLogEvent keeping the error entries next to the error-with-trace ones
parseLogEventKeepsBoth(data) ==
  LET st == ParseMembers(ParseStart, ForEachMembers(data)) IN
  [ok |-> TRUE,
   event |->
     [Message |-> st.Message,
      Level |-> st.Level,
      Exception |-> st.errExept \o st.Exception,
      Contexts |-> IF DOMAIN st.payload # {} THEN Put(EmptyMap, "payload", st.payload) ELSE EmptyMap,
      Extra |-> EmptyMap]]

\* func (w *Writer) parseLogEvent(data []byte) (*sentry.Event, bool), of the
\* writers with breadcrumbs: it always returns ok = true
parseLogEvent(data) ==
  LET st == ParseMembers(ParseStart, ForEachMembers(data)) IN
  [ok |-> TRUE,
   event |->
     [Message |-> st.Message,
      Level |-> st.Level,
      Exception |-> IF ~st.isStack /\ Len(st.errExept) > 0 THEN st.errExept ELSE st.Exception,
      Contexts |-> IF DOMAIN st.payload # {} THEN Put(EmptyMap, "payload", st.payload) ELSE EmptyMap,
      Extra |-> EmptyMap]]

\* the hub-only callback without its case for the level and time keys
ParseMemberHubKeepsLevel(ev, kv) ==
  CASE kv.key = MessageFieldName ->
         [ev EXCEPT !.Message = ValueString(kv.value)]
    [] kv.key = ErrorFieldName ->
         [ev EXCEPT !.Exception = Append(@, Exc(ValueString(kv.value), FreshTrace))]
    [] OTHER ->
         [ev EXCEPT !.Extra = Put(@, kv.key, ValueString(kv.value))]

\* the ForEach callback of the hub-only writer's parseLogEvent
ParseMemberHub(ev, kv) ==
  CASE kv.key = MessageFieldName ->
         [ev EXCEPT !.Message = ValueString(kv.value)]
    [] kv.key = ErrorFieldName ->
         [ev EXCEPT !.Exception = Append(@, Exc(ValueString(kv.value), FreshTrace))]
    [] kv.key \in {LevelFieldName, "time"} -> ev
    [] OTHER ->
         [ev EXCEPT !.Extra = Put(@, kv.key, ValueString(kv.value))]

RECURSIVE ParseMembersHub(_, _)
ParseMembersHub(ev, fs) ==
  IF fs = <<>> THEN ev ELSE ParseMembersHub(ParseMemberHub(ev, Head(fs)), Tail(fs))

NoLookup == [used |-> FALSE, lvl |-> NoLevel, level |-> NoSentryLevel, ok |-> FALSE]
Lookup(lvl) == [used |-> TRUE, lvl |-> lvl, level |-> MapLevel(lvl).level, ok |-> MapLevel(lvl).ok]

NoEvent ==
  [Message |-> "", Level |-> NoSentryLevel, Exception |-> <<>>,
   Contexts |-> EmptyMap, Extra |-> EmptyMap]

\* parseLogEvent of the hub-only writer: the level is parsed, checked against
\* w.levels and mapped before the members are walked
parseLogEventHub(w, data) ==
  LET lv == parseLogLevel(data) IN
  IF lv.err THEN [ok |-> FALSE, event |-> NoEvent, lookup |-> NoLookup]
  ELSE IF lv.lvl \notin w.levels THEN [ok |-> FALSE, event |-> NoEvent, lookup |-> NoLookup]
  ELSE IF ~MapLevel(lv.lvl).ok THEN [ok |-> FALSE, event |-> NoEvent, lookup |-> Lookup(lv.lvl)]
  ELSE [ok |-> TRUE,
        event |-> ParseMembersHub([NoEvent EXCEPT !.Level = MapLevel(lv.lvl).level],
                                  ForEachMembers(data)),
        lookup |-> Lookup(lv.lvl)]

\* ------------------------------------------------------------ the writers
\* The three Writer types of the source:
\*   HubBreadcrumbs  struct{hub, levels, flushTimeout, withBreadcrumbs}
\*   Breadcrumbs     struct{levels, withBreadcrumbs}  (package-level sentry calls)
\*   Hub             struct{hub, levels, flushTimeout}
Impls == {"HubBreadcrumbs", "Breadcrumbs", "Hub"}

\* flushTimeout: 3 * time.Second, in seconds
FlushTimeoutSeconds == 3

\* a default that also forwards warnings
DefaultLevelsWithWarn == {WarnLevel, ErrorLevel, FatalLevel, PanicLevel}

\* newDefaultConfig().levels
DefaultLevels == {ErrorLevel, FatalLevel, PanicLevel}

\* the level lists given to WithLevels (none given: the default)
LevelSets ==
  {DefaultLevels, {}, {DebugLevel, InfoLevel, WarnLevel},
   {TraceLevel, NoLevel, Disabled, OtherLevel}, LevelValues}

\* New / NewWithHub: the Writer built from the options
New(impl, lvls, breadcrumbs) ==
  [impl |-> impl,
   levels |-> lvls,
   flushTimeout |-> IF impl = "Breadcrumbs" THEN 0 ELSE FlushTimeoutSeconds,
   withBreadcrumbs |-> IF impl = "Hub" THEN FALSE ELSE breadcrumbs]

Writers ==
  {New(impl, lvls, bc) : impl \in Impls, lvls \in LevelSets, bc \in BOOLEAN}

\* the options given to New / NewWithHub: WithLevels at most once (levels is
\* empty when it is not given), WithBreadcrumbs or not
NoOptions == [levels |-> <<>>, breadcrumbs |-> FALSE]
Options(impl) ==
  {[levels |-> ls, breadcrumbs |-> bc] :
     ls \in {<<>>} \cup {<<lvls>> : lvls \in LevelSets},
     bc \in IF impl = "Hub" THEN {FALSE} ELSE BOOLEAN}

\* cfg := newDefaultConfig(); opt.apply(&cfg) for each option; the Writer
Construct(impl, opts) ==
  New(impl, IF opts.levels = <<>> THEN DefaultLevels ELSE opts.levels[1], opts.breadcrumbs)

\* calls on the transport
CaptureEvent(event) == [fn |-> "CaptureEvent", event |-> event, timeout |-> 0]
AddBreadcrumb(crumb) == [fn |-> "AddBreadcrumb", event |-> crumb, timeout |-> 0]
Flush(timeout) == [fn |-> "Flush", event |-> NoEvent, timeout |-> timeout]

\* func (w *Writer) addBreadcrumb(event *sentry.Event)
addBreadcrumb(w, event) ==
  IF ~w.withBreadcrumbs THEN <<>>
  ELSE <<AddBreadcrumb(
           [Category |-> IF "category" \in DOMAIN event.Extra
                           THEN event.Extra["category"] ELSE "",
            Message |-> event.Message,
            Level |-> event.Level,
            Data |-> event.Extra])>>

\* a writer that flushes after every report it forwards
flushAfterEveryForward(w, event) ==
  IF w.impl # "Breadcrumbs" THEN <<Flush(w.flushTimeout)>> ELSE <<>>

\* `if event.Level == sentry.LevelFatal { w.hub.Flush(w.flushTimeout) }`;
\* the writer without a hub has no such statement
flushIfFatal(w, event) ==
  IF w.impl # "Breadcrumbs" /\ event.Level = LevelFatal
    THEN <<Flush(w.flushTimeout)>> ELSE <<>>

Outcome(n, calls, lookup) == [n |-> n, err |-> "nil", calls |-> calls, lookup |-> lookup]

\* func (w *Writer) Write(data []byte) (int, error), writers with breadcrumbs
WriteBreadcrumbs(w, data) ==
  LET n == DataLen(data)
      lv == parseLogLevel(data)
      parsed == parseLogEvent(data)
  IN  IF lv.err THEN Outcome(n, <<>>, NoLookup)
      ELSE IF ~parsed.ok THEN Outcome(n, <<>>, NoLookup)
      ELSE IF lv.lvl \notin w.levels
        THEN Outcome(n, addBreadcrumb(w, parsed.event), NoLookup)
      ELSE Outcome(DataLen(data),
                   <<CaptureEvent(parsed.event)>> \o flushIfFatal(w, parsed.event),
                   NoLookup)

\* func (w *Writer) Write(data []byte) (int, error), hub-only writer
WriteHub(w, data) ==
  LET parsed == parseLogEventHub(w, data) IN
  IF parsed.ok
    THEN Outcome(DataLen(data),
                 <<CaptureEvent(parsed.event)>> \o flushIfFatal(w, parsed.event),
                 parsed.lookup)
    ELSE Outcome(DataLen(data), <<>>, parsed.lookup)

Write(w, data) ==
  IF w.impl = "Hub" THEN WriteHub(w, data) ELSE WriteBreadcrumbs(w, data)

\* WriteLevel with `n = len(p)` placed after the early returns
WriteLevelLateCount(w, level, p) ==
  LET n == DataLen(p)
      parsed == parseLogEvent(p)
      event == [parsed.event EXCEPT !.Level = MapLevel(level).level]
  IN  IF ~parsed.ok THEN Outcome(0, <<>>, NoLookup)
      ELSE IF ~MapLevel(level).ok THEN Outcome(0, <<>>, Lookup(level))
      ELSE IF level \notin w.levels
        THEN Outcome(n, addBreadcrumb(w, event), Lookup(level))
      ELSE Outcome(n, <<CaptureEvent(event)>> \o flushIfFatal(w, event), Lookup(level))

\* func (w *Writer) WriteLevel(level zerolog.Level, p []byte) (n int, err error)
WriteLevel(w, level, p) ==
  LET n == DataLen(p)
      parsed == parseLogEvent(p)
      event == [parsed.event EXCEPT !.Level = MapLevel(level).level]
  IN  IF ~parsed.ok THEN Outcome(n, <<>>, NoLookup)
      ELSE IF ~MapLevel(level).ok THEN Outcome(n, <<>>, Lookup(level))
      ELSE IF level \notin w.levels
        THEN Outcome(n, addBreadcrumb(w, event), Lookup(level))
      ELSE Outcome(n, <<CaptureEvent(event)>> \o flushIfFatal(w, event), Lookup(level))

\* func (w *Writer) Close() error
Close(w) ==
  IF w.impl = "Breadcrumbs" THEN Outcome(0, <<>>, NoLookup)
  ELSE Outcome(0, <<Flush(w.flushTimeout)>>, NoLookup)

\* ------------------------------------------------------------------ state
VARIABLES
  writer,    \* the Writer under test: its fields, as New built them
  phase,     \* "idle": no call made yet or the last one consumed; "done": a call returned
  op,        \* the sink called last: "Write", "WriteLevel", "Close" or "none"
  level,     \* the level argument of the last WriteLevel
  data,      \* the record of the last Write / WriteLevel
  calls,     \* the transport calls the last call made, in order
  ret,       \* what the last call returned: [n, err]
  lookup,    \* the levelsMapping read the last call made, if any
  options    \* the options the Writer was built with

writerVars == <<writer, phase, op, level, data, calls, ret, lookup, options>>

NoRet == [n |-> 0, err |-> "nil"]

WriterInit ==
  /\ \E impl \in Impls : \E opts \in Options(impl) :
       /\ options = opts
       /\ writer = Construct(impl, opts)
  /\ writer \in Writers
  /\ phase = "idle"
  /\ op = "none"
  /\ level = NoLevel
  /\ data = ScalarDoc
  /\ calls = <<>>
  /\ ret = NoRet
  /\ lookup = NoLookup

Apply(o) ==
  /\ calls' = o.calls
  /\ ret' = [n |-> o.n, err |-> o.err]
  /\ lookup' = o.lookup
  /\ phase' = "done"
  /\ UNCHANGED <<writer, options>>

\* the logging backend hands a record to the io.Writer
DoWrite ==
  /\ phase = "idle"
  /\ \E d \in Documents :
       /\ op' = "Write"
       /\ data' = d
       /\ level' = NoLevel
       /\ Apply(Write(writer, d))

\* the logging backend hands a record and its level to the zerolog.LevelWriter
DoWriteLevel ==
  /\ phase = "idle"
  /\ writer.impl # "Hub"
  /\ \E l \in LevelValues, d \in Documents :
       /\ op' = "WriteLevel"
       /\ data' = d
       /\ level' = l
       /\ Apply(WriteLevel(writer, l, d))

DoClose ==
  /\ phase = "idle"
  /\ op' = "Close"
  /\ data' = ScalarDoc
  /\ level' = NoLevel
  /\ Apply(Close(writer))

\* the caller takes the result; the writer keeps nothing of the call
Return ==
  /\ phase = "done"
  /\ phase' = "idle"
  /\ op' = "none"
  /\ level' = NoLevel
  /\ data' = ScalarDoc
  /\ calls' = <<>>
  /\ ret' = NoRet
  /\ lookup' = NoLookup
  /\ UNCHANGED <<writer, options>>

\* ------------------------------------------------------- the stack trimmer
AppModule == "main"
ZerologModule == "github.com/rs/zerolog"
RootModule == "github.com/XiBao/logger"
ZlogsentryModule == "github.com/XiBao/logger/zlogsentry"
CommonModule == "github.com/XiBao/logger/common"

\* Frame.Module is the import path of the frame's package
Modules == {AppModule, ZerologModule, RootModule, ZlogsentryModule, CommonModule}

\* the packages of the bridge's own Go module
BridgeModules == {RootModule, ZlogsentryModule, CommonModule}

\* the two copies of the trimmer
Trimmers == {"common.Stacktrace", "zlogsentry.newStacktrace"}

\* const currentModule, of each copy
currentModule(t) == IF t = "common.Stacktrace" THEN RootModule ELSE ZlogsentryModule

\* const zerologModule
zerologModule == ZerologModule

\* sentry.NewStacktrace(): frames oldest first; Line tells the frames apart
Stack(ms) == [k \in 1..Len(ms) |-> [Module |-> ms[k], Line |-> k]]
Stacks == {Stack(ms) : ms \in SeqsUpTo(Modules, MaxFrames)}

VARIABLES
  trimmer,    \* which copy of the trimmer runs
  frames,     \* st.Frames as captured
  tpc,        \* the statement the trimmer is at
  threshold,  \* the cursor
  ti,         \* i of the outer loop
  tj,         \* j of the inner loop
  reads,      \* the indices st.Frames was read at so far
  out         \* st.Frames as returned

trimVars == <<trimmer, frames, tpc, threshold, ti, tj, reads, out>>

InRange(idx) == idx >= 0 /\ idx < Len(frames)

\* st.Frames[idx].Module (Go indexes from 0)
ModuleAt(idx) == frames[idx + 1].Module

\* the first loop with `threshold >= 0` for its bound
dropGuardInclusive(th) == th >= 0

\* the condition of `for ; threshold > 0 && ...; threshold--`, up to the read
dropGuard(th) == th > 0

\* the condition of `for i := threshold; i > 0; i--`
outerGuard(i) == i > 0

\* the inner loop stopping at the first frame it looks at
innerStopAny(m) == TRUE

\* the test of the inner loop: `st.Frames[j].Module != zerologModule`
innerStop(m) == m # zerologModule

TrimInit ==
  /\ trimmer \in Trimmers
  /\ frames \in Stacks
  /\ tpc = "start"
  /\ threshold = 0
  /\ ti = 0
  /\ tj = 0
  /\ reads = {}
  /\ out = <<>>

\* threshold := len(st.Frames) - 1
TrimStart ==
  /\ tpc = "start"
  /\ threshold' = Len(frames) - 1
  /\ tpc' = "drop"
  /\ UNCHANGED <<trimmer, frames, ti, tj, reads, out>>

\* one evaluation of the first loop's condition, and its step
DropStep ==
  /\ tpc = "drop"
  /\ IF dropGuard(threshold)
       THEN IF ~InRange(threshold)
              THEN /\ tpc' = "panic"
                   /\ reads' = reads \cup {threshold}
                   /\ UNCHANGED <<threshold, ti>>
              ELSE /\ reads' = reads \cup {threshold}
                   /\ IF ModuleAt(threshold) = currentModule(trimmer)
                        THEN /\ threshold' = threshold - 1
                             /\ UNCHANGED <<tpc, ti>>
                        ELSE /\ tpc' = "outer"
                             /\ ti' = threshold
                             /\ UNCHANGED threshold
       ELSE /\ tpc' = "outer"
            /\ ti' = threshold
            /\ UNCHANGED <<threshold, reads>>
  /\ UNCHANGED <<trimmer, frames, tj, out>>

\* one iteration of `for i := threshold; i > 0; i--`
OuterStep ==
  /\ tpc = "outer"
  /\ IF outerGuard(ti)
       THEN IF ~InRange(ti)
              THEN /\ tpc' = "panic"
                   /\ reads' = reads \cup {ti}
                   /\ UNCHANGED <<ti, tj>>
              ELSE /\ reads' = reads \cup {ti}
                   /\ IF ModuleAt(ti) = zerologModule
                        THEN /\ tj' = ti - 1
                             /\ tpc' = "inner"
                             /\ UNCHANGED ti
                        ELSE /\ ti' = ti - 1
                             /\ UNCHANGED <<tpc, tj>>
       ELSE /\ tpc' = "slice"
            /\ UNCHANGED <<ti, tj, reads>>
  /\ UNCHANGED <<trimmer, frames, threshold, out>>

\* one iteration of `for j := i - 1; j >= 0; j--`, then `break`
InnerStep ==
  /\ tpc = "inner"
  /\ IF tj >= 0
       THEN IF ~InRange(tj)
              THEN /\ tpc' = "panic"
                   /\ reads' = reads \cup {tj}
                   /\ UNCHANGED <<threshold, tj>>
              ELSE /\ reads' = reads \cup {tj}
                   /\ IF innerStop(ModuleAt(tj))
                        THEN /\ threshold' = tj
                             /\ tpc' = "slice"
                             /\ UNCHANGED tj
                        ELSE /\ tj' = tj - 1
                             /\ UNCHANGED <<threshold, tpc>>
       ELSE /\ tpc' = "slice"
            /\ UNCHANGED <<threshold, tj, reads>>
  /\ UNCHANGED <<trimmer, frames, ti, out>>

\* st.Frames = st.Frames[:threshold+1]; return st
SliceStep ==
  /\ tpc = "slice"
  /\ IF threshold + 1 >= 0 /\ threshold + 1 <= Len(frames)
       THEN /\ out' = SubSeq(frames, 1, threshold + 1)
            /\ tpc' = "done"
       ELSE /\ tpc' = "panic"
            /\ UNCHANGED out
  /\ UNCHANGED <<trimmer, frames, threshold, ti, tj, reads>>

\* ------------------------------------------------- the value converter
\* convertValue(v interface{}) string of the zerolog hook.  A 64-bit integer
\* is the pair [hi, lo] standing for hi * 2^63 + lo, so that the values around
\* the signed maximum can be told apart without arithmetic beyond 32 bits.
Num(hi, lo) == [hi |-> hi, lo |-> lo]
Small(n) == Num(0, n)
MaxInt64 == Num(1, -1)
MinInt64 == Num(-1, 0)
TwoTo63 == Num(1, 0)
MaxUint64 == Num(2, -1)

\* the integers given to the converter, per Go type
IntValues ==
  [int |-> {Small(7), Small(-3), MaxInt64},
   int8 |-> {Small(5), Small(-128)},
   int16 |-> {Small(300)},
   int32 |-> {Small(70000)},
   int64 |-> {Small(0), MinInt64},
   uint |-> {Small(7), TwoTo63, MaxUint64},
   uint8 |-> {Small(200)},
   uint16 |-> {Small(65535)},
   uint32 |-> {Small(70000)},
   uint64 |-> {Small(7), TwoTo63, MaxUint64}]
IntTypes == DOMAIN IntValues
Numbers == UNION {IntValues[t] : t \in IntTypes} \cup {Small(-1)}

\* int(v) of a uint v on a 64-bit build: values from 2^63 up wrap by 2^64
ToInt(n) ==
  IF n.hi > 1 \/ (n.hi = 1 /\ n.lo >= 0) THEN Num(n.hi - 2, n.lo) ELSE n

\* strconv.Itoa / FormatInt / FormatUint in base 10: the canonical decimal text
FormatInt(n) ==
  CASE n.hi = 0 -> ToString(n.lo)
    [] n = MaxInt64 -> "9223372036854775807"
    [] n = MinInt64 -> "-9223372036854775808"
    [] n = TwoTo63 -> "9223372036854775808"
    [] n = MaxUint64 -> "18446744073709551615"

\* the values given to the converter
Nil == [kind |-> "nil"]
BoolV(b) == [kind |-> "bool", b |-> b]
IntV(t, n) == [kind |-> t, n |-> n]
StringV(s) == [kind |-> "string", s |-> s]
\* a []byte: its runs of valid UTF-8 text, InvalidRun where the bytes are none
InvalidRun == [valid |-> FALSE, s |-> ""]
ValidRun(s) == [valid |-> TRUE, s |-> s]
BytesV(runs) == [kind |-> "[]byte", runs |-> runs]
\* a struct, by its %+v text
StructV(text) == [kind |-> "struct", text |-> text]
SliceV(elems) == [kind |-> "slice", elems |-> elems]
\* a map with at most one entry, the key by its %v text
MapV(keys, elems) == [kind |-> "map", keys |-> keys, elems |-> elems]
PtrV(elem) == [kind |-> "ptr", isNil |-> FALSE, elem |-> elem]
NilPtr == [kind |-> "ptr", isNil |-> TRUE, elem |-> Nil]

Scalars ==
  {Nil, BoolV(TRUE), BoolV(FALSE), StringV("say \"hi\""), StructV("{A:1 B:<nil>}"),
   BytesV(<<ValidRun("ok")>>), BytesV(<<ValidRun("a"), InvalidRun, ValidRun("b")>>),
   NilPtr}
    \cup UNION {{IntV(t, n) : n \in IntValues[t]} : t \in IntTypes}

\* the values nested at most d deep: pointers, slices (also with a nil
\* interface after the element) and maps over the values one level less deep
RECURSIVE ValuesUpTo(_)
ValuesUpTo(d) ==
  IF d = 0 THEN Scalars
  ELSE LET inner == ValuesUpTo(d - 1) IN
       Scalars
         \cup {PtrV(v) : v \in inner}
         \cup {SliceV(<<>>)} \cup {SliceV(<<v>>) : v \in inner}
         \cup {SliceV(<<v, Nil>>) : v \in inner}
         \cup {MapV(<<>>, <<>>)} \cup {MapV(<<"k">>, <<v>>) : v \in inner}

Values == ValuesUpTo(MaxDepth)

\* strings.ToValidUTF8(string(v), ""): the valid runs, joined
RECURSIVE ToValidUTF8(_)
ToValidUTF8(runs) ==
  IF runs = <<>> THEN ""
  ELSE (IF Head(runs).valid THEN Head(runs).s ELSE "") \o ToValidUTF8(Tail(runs))

\* encoding/json's string escaping, for the characters the values hold
RECURSIVE EscapeString(_)
EscapeString(s) ==
  IF Len(s) = 0 THEN ""
  ELSE LET c == SubSeq(s, 1, 1) IN
       (CASE c = "\"" -> "\\\""
          [] c = "\\" -> "\\\\"
          [] c = "<" -> "\\u003c"
          [] c = ">" -> "\\u003e"
          [] OTHER -> c)
         \o EscapeString(SubSeq(s, 2, Len(s)))

Quote(s) == "\"" \o EscapeString(s) \o "\""

\* json.Marshal(items) of a []string
RECURSIVE JoinQuoted(_)
JoinQuoted(items) ==
  IF items = <<>> THEN ""
  ELSE Quote(Head(items)) \o (IF Len(items) > 1 THEN "," ELSE "") \o JoinQuoted(Tail(items))
MarshalStrings(items) == "[" \o JoinQuoted(items) \o "]"

\* json.Marshal(kvs) of a map[string]string with at most one entry
MarshalMap(keys, items) ==
  IF keys = <<>> THEN "{}"
  ELSE "{" \o Quote(keys[1]) \o ":" \o Quote(items[1]) \o "}"

\* what a call of convertValue does: it returns a string, or it panics
Returned(s) == [panic |-> FALSE, s |-> s]
Panicked == [panic |-> TRUE, s |-> ""]

\* func convertValue(v interface{}) string
RECURSIVE convertValue(_)
convertValue(v) ==
  CASE v.kind = "bool" -> Returned(IF v.b THEN "true" ELSE "false")
    [] v.kind = "[]byte" -> Returned(ToValidUTF8(v.runs))
    [] v.kind = "uint" -> Returned(FormatInt(ToInt(v.n)))
    [] v.kind = "int" -> Returned(FormatInt(v.n))
    [] v.kind = "uint64" -> Returned(FormatInt(v.n))
    [] v.kind = "int64" -> Returned(FormatInt(v.n))
    [] v.kind = "string" -> Returned(v.s)
    [] v.kind = "nil" -> Returned("")
    [] v.kind = "struct" -> Returned(v.text)
    [] v.kind \in {"slice", "map"} ->
         LET items == [i \in 1..Len(v.elems) |-> convertValue(v.elems[i])] IN
         IF \E i \in 1..Len(items) : items[i].panic THEN Panicked
         ELSE LET texts == [i \in 1..Len(items) |-> items[i].s] IN
              Returned(IF v.kind = "slice" THEN MarshalStrings(texts)
                       ELSE MarshalMap(v.keys, texts))
    [] v.kind = "ptr" ->
         \* val.Elem() of a nil pointer is the zero Value, whose Interface() panics
         IF v.isNil THEN Panicked ELSE convertValue(v.elem)
    [] OTHER ->
         Returned("unhandled attribute type: (" \o v.kind \o ") " \o FormatInt(v.n))

VARIABLE
  conv       \* [pc, v, result]: the value converted and what the call did

ConvInit == \E v \in Values : conv = [pc |-> "start", v |-> v, result |-> Returned("")]

ConvIdle == conv = [pc |-> "idle", v |-> Nil, result |-> Returned("")]

\* s := convertValue(v)
Convert ==
  /\ conv.pc = "start"
  /\ conv' = [conv EXCEPT !.pc = "done", !.result = convertValue(conv.v)]

\* ------------------------------------- the sinks, statement by statement
\* Two calls on one Writer (the writer with hub and breadcrumbs), each taken
\* statement by statement so that they interleave when they are on different
\* goroutines.
CallIds == {"first", "second"}

ConcLevelStrings == {"debug", "error", "fatal", "bogus"}
ConcLevels == {DebugLevel, ErrorLevel, FatalLevel, TraceLevel}
ConcBodies ==
  {<<Pair(MessageFieldName, StrVal("boom"))>>,
   <<Pair(ErrorFieldName, StrVal("bad thing")), Pair("category", StrVal("db"))>>}

\* the calls made: Write(data), WriteLevel(level, p), Close()
ConcInputs ==
  {[op |-> "Write", level |-> NoLevel, data |-> ObjectDoc(pre \o b)] :
     pre \in {<<>>} \cup {<<Pair(LevelFieldName, StrVal(l))>> : l \in ConcLevelStrings},
     b \in ConcBodies}
    \cup {[op |-> "WriteLevel", level |-> l, data |-> ObjectDoc(b)] :
            l \in ConcLevels, b \in ConcBodies}
    \cup {[op |-> "Close", level |-> NoLevel, data |-> ScalarDoc]}

\* the addresses of the sentry.Event and of the payload map that a call of
\* parseLogEvent creates, heap objects having been allocated before it
NoObjects == [event |-> 0, payload |-> 0]
NewObjectsShared(heap) == [event |-> heap + 1, payload |-> 1]
NewObjects(heap) == [event |-> heap + 1, payload |-> heap + 2]

\* the Writer's fields after a statement of Write, WriteLevel, Close or
\* addBreadcrumb: none of them assigns a field
fieldsAfterCleared(w) == [w EXCEPT !.levels = {}]
fieldsAfter(w) == w

VARIABLE
  run        \* [w, built, heap, sameGoroutine, call]: the Writer, the Writer as
             \* built, the objects allocated, and the two calls

StartOf(in) ==
  [pc |-> "call", op |-> in.op, level |-> in.level, data |-> in.data,
   lvl |-> NoLevel, event |-> NoEvent, objs |-> NoObjects, calls |-> <<>>]

RunInit ==
  \E lvls \in LevelSets, bc \in BOOLEAN, same \in BOOLEAN, in1 \in ConcInputs, in2 \in ConcInputs :
    run = [w |-> New("HubBreadcrumbs", lvls, bc),
           built |-> New("HubBreadcrumbs", lvls, bc),
           heap |-> 0,
           sameGoroutine |-> same,
           call |-> [c \in CallIds |-> StartOf(IF c = "first" THEN in1 ELSE in2)]]

RunIdle ==
  run = [w |-> New("HubBreadcrumbs", DefaultLevels, FALSE),
         built |-> New("HubBreadcrumbs", DefaultLevels, FALSE),
         heap |-> 0,
         sameGoroutine |-> TRUE,
         call |-> [c \in CallIds |-> [StartOf([op |-> "Close", level |-> NoLevel, data |-> ScalarDoc])
                                        EXCEPT !.pc = "returned"]]]

\* on one goroutine the second call starts after the first has returned
MayStep(c) ==
  (c = "second" /\ run.sameGoroutine) => run.call["first"].pc = "returned"

Step(c, next) ==
  run' = [run EXCEPT !.call[c] = next, !.w = fieldsAfter(run.w)]

\* Write up to `event, ok := w.parseLogEvent(data)`; WriteLevel up to
\* `event.Level, ok = levelsMapping[level]`
SinkStart(c) ==
  LET me == run.call[c]
      lv == parseLogLevel(me.data)
      parsed == parseLogEvent(me.data)
      objs == NewObjects(run.heap)
  IN  /\ me.pc = "call"
      /\ me.op \in {"Write", "WriteLevel"}
      /\ MayStep(c)
      /\ IF me.op = "Write" /\ lv.err
           THEN Step(c, [me EXCEPT !.pc = "returned"])
         ELSE run' = [run EXCEPT
                !.heap = objs.payload,
                !.w = fieldsAfter(run.w),
                !.call[c] =
                  IF me.op = "Write"
                    THEN [me EXCEPT !.pc = IF parsed.ok THEN "route" ELSE "returned",
                                    !.lvl = lv.lvl, !.event = parsed.event, !.objs = objs]
                    ELSE [me EXCEPT !.pc = IF parsed.ok /\ MapLevel(me.level).ok
                                             THEN "route" ELSE "returned",
                                    !.lvl = me.level,
                                    !.event = [parsed.event EXCEPT
                                                 !.Level = MapLevel(me.level).level],
                                    !.objs = objs]]

\* `if _, enabled := w.levels[lvl]; !enabled {`, else w.hub.CaptureEvent(event)
\* and `if event.Level == sentry.LevelFatal {`
RouteStep(c) ==
  LET me == run.call[c] IN
  /\ me.pc = "route"
  /\ IF me.lvl \notin run.w.levels
       THEN Step(c, [me EXCEPT !.pc = "crumb"])
       ELSE Step(c, [me EXCEPT !.calls = Append(@, CaptureEvent(me.event)),
                               !.pc = IF me.event.Level = LevelFatal THEN "flush"
                                      ELSE "returned"])

\* w.addBreadcrumb(event); return
CrumbStep(c) ==
  LET me == run.call[c] IN
  /\ me.pc = "crumb"
  /\ Step(c, [me EXCEPT !.calls = @ \o addBreadcrumb(run.w, me.event), !.pc = "returned"])

\* w.hub.Flush(w.flushTimeout), of Write, WriteLevel and Close
FlushStep(c) ==
  LET me == run.call[c] IN
  /\ \/ me.pc = "flush"
     \/ me.pc = "call" /\ me.op = "Close" /\ MayStep(c)
  /\ Step(c, [me EXCEPT !.calls = Append(@, Flush(run.w.flushTimeout)), !.pc = "returned"])

\* ------------------------------------------- the adapters' Context pools
\* The zerolog, zap and slog adapters take the Context of a log call from a
\* sync.Pool.  A Context is [target, level, fields]: the zap / slog logger, the
\* level and the fields of the Context; for zerolog all three are those of the
\* *zerolog.Event the Context holds.
Adapters == {"zerolog", "zap", "slog"}
ContextIds == {"x1", "x2"}
CtxLevels == {"debug", "error"}
CtxTargets == {"L1", "L2"}
CtxFieldNames == {"a", "b"}

\* new(Context)
ZeroContext == [target |-> "nil", level |-> "zero", fields |-> <<>>]

\* newContext without `ctx.fields = make(...)`
newContextKeepsFields(ctx, lvl, target) == [ctx EXCEPT !.level = lvl, !.target = target]

\* the assignments of newContext to the object contextPool.Get() returned
newContext(ctx, lvl, target) ==
  [ctx EXCEPT !.level = lvl, !.target = target, !.fields = <<>>]

\* the object as Msg hands it to releaseContext: slog's Msg resets the fields
released(adapter, ctx) ==
  IF adapter = "slog" THEN [ctx EXCEPT !.fields = <<>>] ELSE ctx

VARIABLE
  pool       \* [adapter, objs, made, free, pc, obj, stale, want, logged]: the
             \* Contexts made so far, those in the pool, the log call in
             \* progress (the object as Get returned it: stale; what the call
             \* set: want) and the entry the last terminal method wrote

PoolInit ==
  \E a \in Adapters :
    pool = [adapter |-> a,
            objs |-> [x \in ContextIds |-> ZeroContext],
            made |-> {},
            free |-> {},
            pc |-> "idle",
            obj |-> "x1",
            stale |-> ZeroContext,
            want |-> ZeroContext,
            logged |-> ZeroContext]

PoolIdle ==
  pool = [adapter |-> "zap",
          objs |-> [x \in ContextIds |-> ZeroContext],
          made |-> {},
          free |-> {},
          pc |-> "closed",
          obj |-> "x1",
          stale |-> ZeroContext,
          want |-> ZeroContext,
          logged |-> ZeroContext]

\* contextPool.Get(): an object that was Put, or the New function's
Gettable == pool.free \cup (ContextIds \ pool.made)

\* a.Debug() / a.Error() / ... / a.WithLevel(level): newContext
Acquire ==
  /\ pool.pc \in {"idle", "sent"}
  /\ \E x \in Gettable, lvl \in CtxLevels, target \in CtxTargets :
       pool' = [pool EXCEPT
                  !.objs[x] = newContext(@, lvl, target),
                  !.made = @ \cup {x},
                  !.free = @ \ {x},
                  !.pc = "open",
                  !.obj = x,
                  !.stale = pool.objs[x],
                  !.want = [target |-> target, level |-> lvl, fields |-> <<>>]]

\* c.Str(key, value) and the other field methods
AddField ==
  /\ pool.pc = "open"
  /\ Len(pool.want.fields) < MaxCtxFields
  /\ \E f \in CtxFieldNames :
       pool' = [pool EXCEPT !.objs[pool.obj].fields = Append(@, f),
                            !.want.fields = Append(@, f)]

\* c.Msg(msg) / c.Msgf(format, v...) / c.Send(): log, then releaseContext(c)
Terminal ==
  /\ pool.pc = "open"
  /\ pool' = [pool EXCEPT
                !.logged = pool.objs[pool.obj],
                !.objs[pool.obj] = released(pool.adapter, @),
                !.free = @ \cup {pool.obj},
                !.pc = "sent"]

\* ------------------------------------------ the pools, under concurrency
\* Log calls of several goroutines on one adapter, each taken in its steps:
\* the acquisition (newContext: contextPool.Get), the write of the terminal
\* method, and its releaseContext (contextPool.Put).  Get and Put of a
\* sync.Pool are atomic.  The dummy adapter has a pool of its own.
PooledAdapters == Adapters \cup {"dummy"}
MaxObjects == 3
ObjectIds == 1..MaxObjects
TerminalMethods == {"Msg", "Msgf", "Send"}

\* the adapter methods that start a log call, as far as the terminal
\* method's return goes: Info() for those that return, Panic()
Starters == {"Info", "Panic"}

\* whether the write of the terminal method panics: zerolog's event of
\* Logger.Panic() and zap's Log at zap.PanicLevel panic after writing; slog's
\* Panic() logs at slog.LevelError and the dummy adapter writes nothing
panicsOnWrite(adapter, starter) ==
  starter = "Panic" /\ adapter \in {"zerolog", "zap"}

\* a pool whose Msgf releases the Context and then calls Msg, which
\* releases it again
releaseCountMsgfTwice(adapter, method) ==
  IF method = "Msgf" /\ adapter \in {"zap", "slog"} THEN 2 ELSE 1

\* the releaseContext calls of one terminal method that returns: zerolog's
\* and dummy's Msg, Msgf and Send each call it; zap's and slog's Msg calls
\* it, and their Msgf and Send call Msg
releaseCount(adapter, method) == 1

\* the objects contextPool.New may return: a Context no one has yet; the
\* dummy Context is a struct{} and pointers to zero-size variables may be equal
NewObjectIds(adapter, made) ==
  IF adapter = "dummy" THEN ObjectIds ELSE ObjectIds \ made

NoCall == [pc |-> "idle", obj |-> 0, starter |-> "Info", method |-> "Msg", puts |-> 0]

VARIABLE
  own        \* [adapter, made, free, call]: the Contexts New has returned, how
             \* many times each is in the pool, and each goroutine's log call
             \* [pc, obj, starter, method, puts]

OwnInit ==
  \E a \in PooledAdapters :
    own = [adapter |-> a, made |-> {}, free |-> [x \in ObjectIds |-> 0],
           call |-> [c \in CallIds |-> NoCall]]

OwnIdle == own = [adapter |-> "none"]

InFlight(c) == own.call[c].pc \in {"open", "written"}

\* how many times a Context is around: in the pool and in calls in flight
\* (the dummy adapter's New is taken while this is below MaxCopies)
MaxCopies == 2
Copies(x) == own.free[x] + Cardinality({c \in CallIds : InFlight(c) /\ own.call[c].obj = x})

\* a.Info() / a.Panic(): newContext takes a Context from the pool, or New's
GetStep(c) ==
  /\ own.adapter # "none"
  /\ ~InFlight(c)
  /\ \E starter \in Starters :
       \/ \E x \in {y \in ObjectIds : own.free[y] > 0} :
            own' = [own EXCEPT
                      !.free[x] = @ - 1,
                      !.call[c] = [pc |-> "open", obj |-> x, starter |-> starter,
                                   method |-> "Msg", puts |-> 0]]
       \/ \E x \in NewObjectIds(own.adapter, own.made) :
            /\ Copies(x) < MaxCopies
            /\ own' = [own EXCEPT
                         !.made = @ \cup {x},
                         !.call[c] = [pc |-> "open", obj |-> x, starter |-> starter,
                                      method |-> "Msg", puts |-> 0]]

\* c.Msg / c.Msgf / c.Send, up to the write: it returns or panics
WriteStep(c) ==
  /\ own.adapter # "none"
  /\ own.call[c].pc = "open"
  /\ \E method \in TerminalMethods :
       own' = [own EXCEPT
                 !.call[c].method = method,
                 !.call[c].pc = IF panicsOnWrite(own.adapter, own.call[c].starter)
                                  THEN "panicked" ELSE "written"]

\* releaseContext(c), and the terminal method returns
PutStep(c) ==
  /\ own.adapter # "none"
  /\ own.call[c].pc = "written"
  /\ LET n == releaseCount(own.adapter, own.call[c].method) IN
     own' = [own EXCEPT
               !.free[own.call[c].obj] = @ + n,
               !.call[c].puts = n,
               !.call[c].pc = "returned"]

\* --------------------------------------------- the zap and slog adapters
\* Adapter.Ctx, Adapter.WithContext, the named level methods and WithLevel
\* of adapters/zap and adapters/slog.
Backends == {"zap", "slog"}
AdapterIds == {"a1", "a2"}
MaxAdapterCalls == 2

\* zapcore.Level and slog.Level
ZapLevels == [Debug |-> -1, Info |-> 0, Warn |-> 1, Error |-> 2, DPanic |-> 3,
              Panic |-> 4, Fatal |-> 5]
SlogLevels == [Debug |-> -4, Info |-> 0, Warn |-> 4, Error |-> 8]

NamedMethods == {"Debug", "Info", "Warn", "Error", "Trace", "Panic", "Fatal"}

\* a.Debug() .. a.Fatal(): the backend level the message starts at
NamedLevel(backend, method) ==
  IF backend = "zap"
    THEN ZapLevels[IF method = "Trace" THEN "Debug" ELSE method]
    ELSE SlogLevels[CASE method \in {"Debug", "Trace"} -> "Debug"
                      [] method = "Info" -> "Info"
                      [] method = "Warn" -> "Warn"
                      [] OTHER -> "Error"]

\* func (a *Adapter) WithLevel(level adapters.Level): the backend level the
\* message starts at; zapLevel / slogLevel is the zero level when no branch
\* assigns it
AdapterWithLevel(backend, lvl) ==
  IF backend = "zap"
    THEN IF lvl <= ErrorLevel THEN lvl
         ELSE IF lvl = FatalLevel THEN ZapLevels.Fatal
         ELSE IF lvl = PanicLevel THEN ZapLevels.Panic
         ELSE 0
    ELSE CASE lvl = DebugLevel -> SlogLevels.Debug
           [] lvl = InfoLevel -> SlogLevels.Info
           [] lvl = WarnLevel -> SlogLevels.Warn
           [] lvl \in {ErrorLevel, FatalLevel, PanicLevel} -> SlogLevels.Error
           [] OTHER -> 0

\* what a context holds under ctxKey{}: no Logger, or an adapter
NoLogger == "none"

\* the adapter Ctx makes around zap.L() / slog.Default()
BackendDefault == "default"

\* func (a *Adapter) Ctx(ctx context.Context) adapters.Logger
AdapterCtx(a, holds) == IF holds # NoLogger THEN holds ELSE BackendDefault

\* func (a *Adapter) WithContext(ctx context.Context) context.Context: what
\* the context it returns holds
WithContext(a, holds) == IF holds = NoLogger THEN holds ELSE a

VARIABLE
  adp        \* [backend, holds, calls]: what the application's context holds
             \* under ctxKey{}, and the calls made so far [op, a, arg, result]

\* ctxKey is unexported and WithContext is its only writer, so the
\* application's first context holds no Logger
AdapterInit ==
  \E b \in Backends : adp = [backend |-> b, holds |-> NoLogger, calls |-> <<>>]

AdapterIdle == adp = [backend |-> "none"]

MayCall == adp.backend # "none" /\ Len(adp.calls) < MaxAdapterCalls

\* ctx = a.WithContext(ctx)
CallWithContext ==
  /\ MayCall
  /\ \E a \in AdapterIds :
       LET h == WithContext(a, adp.holds) IN
       adp' = [adp EXCEPT !.holds = h,
                          !.calls = Append(@, [op |-> "WithContext", a |-> a,
                                               arg |-> adp.holds, result |-> h])]

\* l := a.Ctx(ctx)
CallAdapterCtx ==
  /\ MayCall
  /\ \E a \in AdapterIds :
       adp' = [adp EXCEPT !.calls = Append(@, [op |-> "Ctx", a |-> a, arg |-> adp.holds,
                                               result |-> AdapterCtx(a, adp.holds)])]

\* c := a.Debug() / ... / a.Fatal()
CallNamed ==
  /\ MayCall
  /\ \E a \in AdapterIds, m \in NamedMethods :
       adp' = [adp EXCEPT !.calls = Append(@, [op |-> "Named", a |-> a, arg |-> m,
                                               result |-> NamedLevel(adp.backend, m)])]

\* c := a.WithLevel(level)
CallWithLevel ==
  /\ MayCall
  /\ \E a \in AdapterIds, l \in LevelValues :
       adp' = [adp EXCEPT !.calls = Append(@, [op |-> "WithLevel", a |-> a, arg |-> l,
                                               result |-> AdapterWithLevel(adp.backend, l)])]

\* ------------------------------------------------------ the zerolog hook
\* Hook.Run of hook/sentry, in its two versions: the one that looks the hub up
\* in the event's context and tests the client (with convertEvent decoding the
\* event's buffer), and the one that calls the current hub's client directly
\* (with convertEvent asking the event for its fields).
HookImpls == {"GuardedClient", "DirectClient"}

\* const FlushTimeout = 2 * time.Second, in seconds
HookFlushTimeoutSeconds == 2

\* zerolog.Level.String()
LevelString(l) ==
  CASE l = TraceLevel -> "trace"
    [] l = DebugLevel -> "debug"
    [] l = InfoLevel -> "info"
    [] l = WarnLevel -> "warn"
    [] l = ErrorLevel -> "error"
    [] l = FatalLevel -> "fatal"
    [] l = PanicLevel -> "panic"
    [] l = Disabled -> "disabled"
    [] l = NoLevel -> ""
    [] OTHER -> ToString(l)

\* a field whose value is a Go error with the given message
ErrorV(msg) == [kind |-> "error", s |-> msg]

\* the fields a log call adds to the event: Err(err), Interface("error", list),
\* AnErr("cause", err), Str("user", "ann"), Bool("retry", true)
HookFieldChoices ==
  {Pair(ErrorFieldName, ErrorV("bad thing")),
   Pair(ErrorFieldName, SliceV(<<StringV("e1"), Nil>>)),
   Pair("cause", ErrorV("disk full")),
   Pair("user", StringV("ann")),
   Pair("retry", BoolV(TRUE))}

HookFields == SeqsUpTo(HookFieldChoices, MaxFields)

\* what zerolog writes for a value and json.Unmarshal reads back: an error
\* is written as its message, a string, a bool and a list come back as they are
Buffered(v) == IF v.kind = "error" THEN StringV(v.s) ELSE v

\* the event's buffer when the hook runs: the level member zerolog wrote
\* first (none for NoLevel), then the fields; or bytes that do not decode
EventBuffer(l, fs) ==
  [decodes |-> TRUE,
   members |-> (IF l = NoLevel THEN <<>>
                ELSE <<Pair(LevelFieldName, StringV(LevelString(l)))>>)
               \o [i \in 1..Len(fs) |-> Pair(fs[i].key, Buffered(fs[i].value))]]
BrokenBuffer == [decodes |-> FALSE, members |-> <<>>]

\* the map json.Unmarshal builds from the members: the last value of a key
RECURSIVE DecodeMembers(_, _)
DecodeMembers(m, fs) ==
  IF fs = <<>> THEN m ELSE DecodeMembers(Put(m, Head(fs).key, Head(fs).value), Tail(fs))

\* func convertFields(e *zerolog.Event) map[string]interface{}.  The buffer
\* version returns nil when the bytes do not decode.  The other version hands
\* a func to Event.Fields, which takes a map or a slice and ignores any other
\* argument, so the func is never called and the map stays empty.
convertFields(impl, buf, fs) ==
  IF impl = "GuardedClient" /\ buf.decodes
    THEN DecodeMembers(EmptyMap, buf.members)
    ELSE EmptyMap

\* the traces of the hook's exception entries
TrimmedTrace == "common.Stacktrace"
ExtractedTrace == "sentry.ExtractStacktrace"

\* func (h Hook) convertEvent(e *zerolog.Event, level zerolog.Level, message string).
\* range yields the map's entries in no fixed order, so Exception is kept as
\* the set of its entries.
convertEvent(impl, buf, fs, lvl, message) ==
  LET fields == convertFields(impl, buf, fs)
      isErr(k) == fields[k].kind = "error"
      asException(k) ==
        IF impl = "GuardedClient"
          THEN k = ErrorFieldName
          ELSE isErr(k)
      entry(k) ==
        IF isErr(k) THEN Exc(fields[k].s, ExtractedTrace)
        ELSE Exc(convertValue(fields[k]).s, TrimmedTrace) IN
  [Level |-> LevelString(lvl),
   Message |-> message,
   Exception |-> {entry(k) : k \in {x \in DOMAIN fields : asException(x)}},
   Extra |-> [k \in {x \in DOMAIN fields : ~asException(x)} |-> fields[k]]]

\* what one Run did: the transport calls it made, and whether it panicked
HookOutcome(cs, p) == [calls |-> cs, panicked |-> p]

\* func (h Hook) Run(event *zerolog.Event, level zerolog.Level, message string).
\* A nil *sentry.Client panics inside CaptureEvent; hub.CaptureEvent and
\* sentry.Flush do nothing without a client.
Run(impl, buf, fs, lvl, message, clientBound) ==
  LET captured == convertEvent(impl, buf, fs, lvl, message)
      flush == IF lvl \in {FatalLevel, PanicLevel}
                 THEN <<Flush(HookFlushTimeoutSeconds)>> ELSE <<>> IN
  IF lvl = ErrorLevel
    THEN IF clientBound THEN HookOutcome(<<CaptureEvent(captured)>>, FALSE)
         ELSE IF impl = "GuardedClient" THEN HookOutcome(<<>>, FALSE)
         ELSE HookOutcome(<<>>, TRUE)
    ELSE HookOutcome(flush, FALSE)

HookMessages == {"boom"}

VARIABLE
  hook       \* [pc, impl, level, message, fields, buf, clientBound, calls, panicked]

HookStart(impl, lvl, message, fs, buf, bound) ==
  [pc |-> "start", impl |-> impl, level |-> lvl, message |-> message,
   fields |-> fs, buf |-> buf, clientBound |-> bound,
   calls |-> <<>>, panicked |-> FALSE]

HookInit ==
  \E impl \in HookImpls, lvl \in LevelValues, message \in HookMessages,
     fs \in HookFields, ok \in BOOLEAN, bound \in BOOLEAN :
    hook = HookStart(impl, lvl, message, fs,
                     IF ok THEN EventBuffer(lvl, fs) ELSE BrokenBuffer, bound)

HookIdle == hook = [pc |-> "idle"]

\* zerolog runs the hook on the event it is about to write
HookRun ==
  /\ hook.pc = "start"
  /\ LET o == Run(hook.impl, hook.buf, hook.fields, hook.level, hook.message,
                  hook.clientBound) IN
     hook' = [hook EXCEPT !.pc = "done", !.calls = o.calls, !.panicked = o.panicked]

\* ------------------------------------------------------ the global logger
\* logger.go: the package's logger, its setter and the two ways to get one.
MaxSets == 2

\* the loggers an application can install, and no logger at all
GlobalLoggers == {"dummy.Adapter", "zerolog.Adapter", "zap.Adapter", "nil"}

\* var defaultLogger = (adapters.Logger)(new(dummy.Adapter))
InitialLogger == "dummy.Adapter"

\* what a context holds under adapters.CtxKey{}: nothing, a value that is
\* not a Logger, or a logger (a nil Logger is stored as no value)
CtxValues == {"absent", "other"} \cup GlobalLoggers

\* a Ctx that reads the global logger whatever the context holds
CtxIgnoresContext(current, value) == current

\* func SetGlobalLogger(logger adapters.Logger): the new defaultLogger
SetGlobalLogger(current, logger) == logger

\* func Logger() adapters.Logger
Logger(current) == current

\* func Ctx(ctx context.Context) adapters.Logger
Ctx(current, value) ==
  IF value \in GlobalLoggers \ {"nil"} THEN value ELSE Logger(current)

VARIABLE
  global     \* [defaultLogger, sets, op, arg, before, result]

GlobalInit ==
  global = [defaultLogger |-> InitialLogger, sets |-> <<>>, op |-> "none",
            arg |-> "absent", before |-> InitialLogger, result |-> "none"]

GlobalIdle == global = [op |-> "idle"]

\* SetGlobalLogger(logger)
CallSetGlobalLogger ==
  /\ global.op # "idle"
  /\ Len(global.sets) < MaxSets
  /\ \E logger \in GlobalLoggers :
       global' = [defaultLogger |-> SetGlobalLogger(global.defaultLogger, logger),
                  sets |-> Append(global.sets, logger), op |-> "SetGlobalLogger",
                  arg |-> logger, before |-> global.defaultLogger, result |-> "none"]

\* l := Logger()
CallLogger ==
  /\ global.op # "idle"
  /\ global' = [global EXCEPT !.op = "Logger", !.arg = "absent",
                              !.before = global.defaultLogger,
                              !.result = Logger(global.defaultLogger)]

\* l := Ctx(ctx)
CallCtx ==
  /\ global.op # "idle"
  /\ \E value \in CtxValues :
       global' = [global EXCEPT !.op = "Ctx", !.arg = value,
                                !.before = global.defaultLogger,
                                !.result = Ctx(global.defaultLogger, value)]

\* ------------------------------------------------- the parser, called alone
\* parseLogEvent applied to one record, for the claims about the report it
\* builds whether or not the record is forwarded afterwards.
Parsers == {"parseLogEvent", "parseLogEventHub"}

VARIABLE
  parse      \* [pc, parser, levels, data, ok, event]: the call and what it returned

\* the receiver of the call: only the hub-only parser reads w.levels
ParseReceivers ==
  {[parser |-> "parseLogEvent", levels |-> DefaultLevels]}
    \cup {[parser |-> "parseLogEventHub", levels |-> lvls] : lvls \in LevelSets}

ParseInit ==
  \E r \in ParseReceivers, d \in Documents :
    parse = [pc |-> "start", parser |-> r.parser, levels |-> r.levels, data |-> d,
             ok |-> FALSE, event |-> NoEvent]

ParseIdle ==
  parse = [pc |-> "idle", parser |-> "parseLogEvent", levels |-> DefaultLevels,
           data |-> ScalarDoc, ok |-> FALSE, event |-> NoEvent]

\* event, ok := w.parseLogEvent(data)
ParseCall ==
  /\ parse.pc = "start"
  /\ LET r == IF parse.parser = "parseLogEvent"
                THEN parseLogEvent(parse.data)
                ELSE parseLogEventHub(New("Hub", parse.levels, FALSE), parse.data)
     IN parse' = [parse EXCEPT !.pc = "done", !.ok = r.ok, !.event = r.event]

\* ---------------------------------------------------------- specifications
\* the trimmer at rest, while the writer is exercised
TrimIdle ==
  /\ trimmer = "common.Stacktrace"
  /\ frames = <<>>
  /\ tpc = "start"
  /\ threshold = 0
  /\ ti = 0
  /\ tj = 0
  /\ reads = {}
  /\ out = <<>>

\* the writer at rest, while the trimmer is exercised
WriterIdle ==
  /\ writer = Construct("HubBreadcrumbs", NoOptions)
  /\ options = NoOptions
  /\ phase = "idle"
  /\ op = "none"
  /\ level = NoLevel
  /\ data = ScalarDoc
  /\ calls = <<>>
  /\ ret = NoRet
  /\ lookup = NoLookup

vars == <<writerVars, trimVars, parse, conv, run, pool, hook, global, own, adp>>

\* what each specification leaves alone
exceptWriter == <<trimVars, parse, conv, run, pool, hook, global, own, adp>>
exceptTrim == <<writerVars, parse, conv, run, pool, hook, global, own, adp>>
exceptParse == <<writerVars, trimVars, conv, run, pool, hook, global, own, adp>>
exceptConv == <<writerVars, trimVars, parse, run, pool, hook, global, own, adp>>
exceptRun == <<writerVars, trimVars, parse, conv, pool, hook, global, own, adp>>
exceptPool == <<writerVars, trimVars, parse, conv, run, hook, global, own, adp>>
exceptHook == <<writerVars, trimVars, parse, conv, run, pool, global, own, adp>>
exceptGlobal == <<writerVars, trimVars, parse, conv, run, pool, hook, own, adp>>
exceptOwn == <<writerVars, trimVars, parse, conv, run, pool, hook, global, adp>>
exceptAdapter == <<writerVars, trimVars, parse, conv, run, pool, hook, global, own>>

Init == WriterInit /\ TrimIdle /\ ParseIdle /\ ConvIdle /\ RunIdle /\ PoolIdle /\ HookIdle /\ GlobalIdle /\ OwnIdle /\ AdapterIdle

Next ==
  \/ DoWrite /\ UNCHANGED exceptWriter
  \/ DoWriteLevel /\ UNCHANGED exceptWriter
  \/ DoClose /\ UNCHANGED exceptWriter
  \/ Return /\ UNCHANGED exceptWriter

Spec == Init /\ [][Next]_vars

TrimSpecInit == WriterIdle /\ TrimInit /\ ParseIdle /\ ConvIdle /\ RunIdle /\ PoolIdle /\ HookIdle /\ GlobalIdle /\ OwnIdle /\ AdapterIdle

TrimNext ==
  \/ TrimStart /\ UNCHANGED exceptTrim
  \/ DropStep /\ UNCHANGED exceptTrim
  \/ OuterStep /\ UNCHANGED exceptTrim
  \/ InnerStep /\ UNCHANGED exceptTrim
  \/ SliceStep /\ UNCHANGED exceptTrim

TrimSpec == TrimSpecInit /\ [][TrimNext]_vars

ParseSpecInit == WriterIdle /\ TrimIdle /\ ParseInit /\ ConvIdle /\ RunIdle /\ PoolIdle /\ HookIdle /\ GlobalIdle /\ OwnIdle /\ AdapterIdle

ParseNext == ParseCall /\ UNCHANGED exceptParse

ParseSpec == ParseSpecInit /\ [][ParseNext]_vars

ConvSpecInit == WriterIdle /\ TrimIdle /\ ParseIdle /\ ConvInit /\ RunIdle /\ PoolIdle /\ HookIdle /\ GlobalIdle /\ OwnIdle /\ AdapterIdle

ConvNext == Convert /\ UNCHANGED exceptConv

ConvSpec == ConvSpecInit /\ [][ConvNext]_vars

RunSpecInit == WriterIdle /\ TrimIdle /\ ParseIdle /\ ConvIdle /\ RunInit /\ PoolIdle /\ HookIdle /\ GlobalIdle /\ OwnIdle /\ AdapterIdle

RunNext ==
  \/ \E c \in CallIds : SinkStart(c) /\ UNCHANGED exceptRun
  \/ \E c \in CallIds : RouteStep(c) /\ UNCHANGED exceptRun
  \/ \E c \in CallIds : CrumbStep(c) /\ UNCHANGED exceptRun
  \/ \E c \in CallIds : FlushStep(c) /\ UNCHANGED exceptRun

RunSpec == RunSpecInit /\ [][RunNext]_vars

PoolSpecInit == WriterIdle /\ TrimIdle /\ ParseIdle /\ ConvIdle /\ RunIdle /\ PoolInit /\ HookIdle /\ GlobalIdle /\ OwnIdle /\ AdapterIdle

PoolNext ==
  \/ Acquire /\ UNCHANGED exceptPool
  \/ AddField /\ UNCHANGED exceptPool
  \/ Terminal /\ UNCHANGED exceptPool

PoolSpec == PoolSpecInit /\ [][PoolNext]_vars

\* the hook, run once on one event
HookSpecInit == HookInit /\ WriterIdle /\ TrimIdle /\ ParseIdle /\ ConvIdle /\ RunIdle /\ PoolIdle /\ GlobalIdle /\ OwnIdle /\ AdapterIdle
HookNext == HookRun /\ UNCHANGED exceptHook
HookSpec == HookSpecInit /\ [][HookNext]_vars

\* the global logger, set and read in any order
GlobalSpecInit == GlobalInit /\ WriterIdle /\ TrimIdle /\ ParseIdle /\ ConvIdle /\ RunIdle /\ PoolIdle /\ HookIdle /\ OwnIdle /\ AdapterIdle
GlobalNext ==
  \/ CallSetGlobalLogger /\ UNCHANGED exceptGlobal
  \/ CallLogger /\ UNCHANGED exceptGlobal
  \/ CallCtx /\ UNCHANGED exceptGlobal
GlobalSpec == GlobalSpecInit /\ [][GlobalNext]_vars

\* log calls of two goroutines on one adapter
OwnSpecInit == OwnInit /\ WriterIdle /\ TrimIdle /\ ParseIdle /\ ConvIdle /\ RunIdle /\ PoolIdle /\ HookIdle /\ GlobalIdle /\ AdapterIdle
OwnNext ==
  \/ \E c \in CallIds : GetStep(c) /\ UNCHANGED exceptOwn
  \/ \E c \in CallIds : WriteStep(c) /\ UNCHANGED exceptOwn
  \/ \E c \in CallIds : PutStep(c) /\ UNCHANGED exceptOwn
OwnSpec == OwnSpecInit /\ [][OwnNext]_vars

\* calls on the zap and slog adapters
AdapterSpecInit == AdapterInit /\ WriterIdle /\ TrimIdle /\ ParseIdle /\ ConvIdle /\ RunIdle /\ PoolIdle /\ HookIdle /\ GlobalIdle /\ OwnIdle
AdapterNext ==
  \/ CallWithContext /\ UNCHANGED exceptAdapter
  \/ CallAdapterCtx /\ UNCHANGED exceptAdapter
  \/ CallNamed /\ UNCHANGED exceptAdapter
  \/ CallWithLevel /\ UNCHANGED exceptAdapter
AdapterSpec == AdapterSpecInit /\ [][AdapterNext]_vars

\* ------------------------------------------------------------ the claims
IsSinkCall == phase = "done" /\ op \in {"Write", "WriteLevel"}

Captures == SelectSeq(calls, LAMBDA c : c.fn = "CaptureEvent")
Breadcrumbs == SelectSeq(calls, LAMBDA c : c.fn = "AddBreadcrumb")
Flushes == SelectSeq(calls, LAMBDA c : c.fn = "Flush")

\* the six source levels that have a target severity, and the targets
MappedLevels == {DebugLevel, InfoLevel, WarnLevel, ErrorLevel, FatalLevel, PanicLevel}
TargetOf(l) ==
  CASE l = DebugLevel -> "debug"
    [] l = InfoLevel -> "info"
    [] l = WarnLevel -> "warning"
    [] l = ErrorLevel -> "error"
    [] l = FatalLevel -> "fatal"
    [] l = PanicLevel -> "fatal"
    [] OTHER -> "unmapped"

HasLevelMember == \E k \in 1..Len(data.fields) : data.fields[k].key = LevelFieldName

\* the level of the record of the last call: the argument of WriteLevel, the
\* level member for Write
LevelParses == op = "WriteLevel" \/ ~parseLogLevel(data).err
SourceLevel == IF op = "WriteLevel" THEN level ELSE parseLogLevel(data).lvl

\* C1: Write and WriteLevel return (len(data), nil) for every record and
\* every writer configuration, whatever parsing and dispatch did.
C1_AlwaysFullCount ==
  IsSinkCall => ret.n = DataLen(data) /\ ret.err = "nil"

C1_Witness ==
  /\ IsSinkCall
  /\ op = "WriteLevel"
  /\ level = TraceLevel
  /\ \E k \in 1..Len(data.fields) :
       data.fields[k] = Pair(ErrorStackFieldName, StrVal("not-json"))
  /\ calls = <<>>
  /\ ret.n = DataLen(data)
  /\ ret.n > 2

\* C2: a record that parses is routed to exactly one of: forward (one
\* CaptureEvent, no breadcrumb) when its level has a target and is enabled;
\* else breadcrumb (one AddBreadcrumb, no CaptureEvent) when breadcrumb mode
\* is on; else dropped (no transport call).
C2_ThreeWayRouting ==
  (IsSinkCall /\ LevelParses) =>
    IF SourceLevel \in MappedLevels /\ SourceLevel \in writer.levels
      THEN Len(Captures) = 1 /\ Len(Breadcrumbs) = 0
    ELSE IF writer.withBreadcrumbs
      THEN Len(Breadcrumbs) = 1 /\ Len(Captures) = 0
    ELSE calls = <<>>

\* C3: when a record whose originating level is fatal or panic is forwarded
\* by a writer that has a flush timeout, the same call flushes with that
\* timeout right after the capture, on Write and on WriteLevel.
C3_FlushAfterFatalForward ==
  (/\ IsSinkCall
   /\ writer.impl # "Breadcrumbs"
   /\ LevelParses
   /\ SourceLevel \in {FatalLevel, PanicLevel}
   /\ Len(Captures) > 0)
    => /\ Len(calls) = 2
       /\ calls[1].fn = "CaptureEvent"
       /\ calls[2] = Flush(writer.flushTimeout)

\* C4: every report handed to CaptureEvent by Write or WriteLevel carries the
\* severity the level table assigns to the record's source level, never an
\* empty or different one.
C4_ForwardedSeverityIsMapped ==
  IsSinkCall =>
    \A k \in 1..Len(Captures) :
      /\ LevelParses
      /\ Captures[k].event.Level = TargetOf(SourceLevel)
      /\ Captures[k].event.Level # NoSentryLevel

\* C5: a record whose source level has no entry in the level table is never
\* passed to CaptureEvent, whatever the enabled set, and the call succeeds.
C5_UnmappedNeverForwarded ==
  (IsSinkCall /\ LevelParses /\ SourceLevel \notin MappedLevels)
    => Len(Captures) = 0 /\ ret = [n |-> DataLen(data), err |-> "nil"]

\* C6: Write of a record whose level member is absent or is no level makes
\* no CaptureEvent and no AddBreadcrumb call, and succeeds.
C6_NoLevelDiscarded ==
  (/\ phase = "done"
   /\ op = "Write"
   /\ (~HasLevelMember \/ parseLogLevel(data).err))
    => /\ Len(Captures) = 0
       /\ Len(Breadcrumbs) = 0
       /\ ret = [n |-> DataLen(data), err |-> "nil"]

\* C7: the level table lookup gives ok = true and the one fixed target for
\* each of debug, info, warn, error, fatal, panic, and ok = false for every
\* other level value.
C7_LevelTable ==
  (phase = "done" /\ lookup.used) =>
    /\ lookup.ok <=> lookup.lvl \in MappedLevels
    /\ lookup.ok => lookup.level = TargetOf(lookup.lvl)
    /\ ~lookup.ok => lookup.level = NoSentryLevel

C7_Witness ==
  /\ phase = "done"
  /\ lookup.used
  /\ lookup.lvl = PanicLevel
  /\ lookup.ok
  /\ lookup.level = "fatal"

\* the modules of a stack, oldest first
ModulesOf(st) == [k \in 1..Len(st) |-> st[k].Module]

\* k application frames, then m logging-library frames, then n frames of the
\* trimmer's own module
Layered(k, m, n) ==
  [x \in 1..(k + m + n) |->
     IF x <= k THEN AppModule
     ELSE IF x <= k + m THEN zerologModule
     ELSE currentModule(trimmer)]

C9_LastFrameIsApplication ==
  (tpc = "done" /\ \E x \in 1..Len(frames) : frames[x].Module = AppModule)
    => /\ out # <<>>
       /\ out[Len(out)].Module \notin BridgeModules \cup {ZerologModule}

\* C10: the cursor never goes below 0 on a non-empty stack, no index outside
\* the stack is read, the result is a prefix of the input that keeps the
\* first frame of a non-empty input, and an empty input gives an empty result.
C10_TrimmerBounds ==
  /\ tpc # "panic"
  /\ \A idx \in reads : idx >= 0 /\ idx < Len(frames)
  /\ (tpc # "start" /\ frames # <<>>) => threshold >= 0
  /\ tpc = "done" =>
       /\ Len(out) <= Len(frames)
       /\ out = SubSeq(frames, 1, Len(out))
       /\ frames # <<>> => (Len(out) >= 1 /\ out[1] = frames[1])
       /\ frames = <<>> => out = <<>>

C10_Witness ==
  /\ tpc = "done"
  /\ Len(frames) >= 3
  /\ \A x \in 1..Len(frames) : frames[x].Module = currentModule(trimmer)
  /\ threshold = 0
  /\ out = <<frames[1]>>

\* the values of the members of the parsed record that have the given key, in
\* order of occurrence
RECURSIVE ValuesOf(_, _)
ValuesOf(fs, key) ==
  IF fs = <<>> THEN <<>>
  ELSE IF Head(fs).key = key THEN <<Head(fs).value>> \o ValuesOf(Tail(fs), key)
  ELSE ValuesOf(Tail(fs), key)

ParsedBy(parser) == parse.pc = "done" /\ parse.parser = parser
ParsedMembers == ForEachMembers(parse.data)

\* C11: for a record with a valid level, one message key, one error key and
\* no error-with-trace key, parseLogEvent of the writers with breadcrumbs
\* succeeds, the report's message is the message value and its exceptions are
\* exactly one entry, whose value is the error string.
C11_PlainErrorRecord ==
  (/\ ParsedBy("parseLogEvent")
   /\ parse.data.object
   /\ Len(ValuesOf(ParsedMembers, LevelFieldName)) = 1
   /\ ~parseLogLevel(parse.data).err
   /\ Len(ValuesOf(ParsedMembers, MessageFieldName)) = 1
   /\ Len(ValuesOf(ParsedMembers, ErrorFieldName)) = 1
   /\ Len(ValuesOf(ParsedMembers, ErrorStackFieldName)) = 0)
    => /\ parse.ok
       /\ parse.event.Message = ValueString(ValuesOf(ParsedMembers, MessageFieldName)[1])
       /\ Len(parse.event.Exception) = 1
       /\ parse.event.Exception[1].Value =
            ValueString(ValuesOf(ParsedMembers, ErrorFieldName)[1])

C11_Witness ==
  /\ ParsedBy("parseLogEvent")
  /\ parse.data.fields = <<Pair(LevelFieldName, StrVal("error")),
                           Pair(ErrorFieldName, StrVal("bad thing")),
                           Pair(MessageFieldName, StrVal("boom"))>>
  /\ parse.ok
  /\ parse.event.Message = "boom"
  /\ parse.event.Exception = <<Exc("bad thing", FreshTrace)>>

\* the error-with-trace values of the parsed record that do not decode
MalformedStackValues ==
  SelectSeq(ValuesOf(ParsedMembers, ErrorStackFieldName), LAMBDA v : ~Unmarshal(v).ok)

\* C12: whenever the value of an error-with-trace key fails to decode,
\* parseLogEvent succeeds and the report has an exception entry whose value is
\* the decode error's text and the unmarshal-failure string as its message,
\* whichever other keys the record holds and in whatever order.
C12_MalformedTraceReported ==
  (ParsedBy("parseLogEvent") /\ MalformedStackValues # <<>>)
    => /\ parse.ok
       /\ \A k \in 1..Len(MalformedStackValues) :
            \E x \in 1..Len(parse.event.Exception) :
              parse.event.Exception[x].Value = Unmarshal(MalformedStackValues[k]).error
       /\ \E k \in 1..Len(MalformedStackValues) :
            parse.event.Message = "Error unmarshal: " \o ValueString(MalformedStackValues[k])

\* one exception entry per member whose key is in keys, in order of
\* occurrence: the error string with a fresh trace for an error key, the
\* embedded text and trace for a well-formed error-with-trace key
RECURSIVE EntriesOf(_, _)
EntriesOf(fs, keys) ==
  IF fs = <<>> THEN <<>>
  ELSE LET kv == Head(fs) IN
       (IF kv.key \notin keys THEN <<>>
        ELSE IF kv.key = ErrorFieldName THEN <<Exc(ValueString(kv.value), FreshTrace)>>
        ELSE <<Exc(Unmarshal(kv.value).Err, EmbeddedTrace)>>)
         \o EntriesOf(Tail(fs), keys)

\* C13 as stated: for a record whose error-with-trace values all decode, the
\* report's exceptions are one entry per error key and one per
\* error-with-trace key, in order of occurrence (empty when it has neither);
\* an error entry is there also when the record has an error-with-trace key.
C13_EveryErrorKeyReported ==
  (ParsedBy("parseLogEvent") /\ MalformedStackValues = <<>>)
    => parse.event.Exception =
         EntriesOf(ParsedMembers, {ErrorFieldName, ErrorStackFieldName})

\* C13 amended: for a record whose error-with-trace values all decode, the
\* report's exceptions are the entries of the error-with-trace keys alone,
\* in order of occurrence, when the record has such a key, and the entries of
\* the error keys, in order of occurrence, when it has none (empty when it
\* has neither).
C13_TraceEntriesReplaceErrorEntries ==
  (ParsedBy("parseLogEvent") /\ MalformedStackValues = <<>>)
    => parse.event.Exception =
         IF ValuesOf(ParsedMembers, ErrorStackFieldName) # <<>>
           THEN EntriesOf(ParsedMembers, {ErrorStackFieldName})
           ELSE EntriesOf(ParsedMembers, {ErrorFieldName})

C13_Witness ==
  /\ ParsedBy("parseLogEvent")
  /\ parse.data.fields = <<Pair(LevelFieldName, StrVal("error")),
                           Pair(ErrorFieldName, StrVal("bad thing")),
                           Pair(ErrorStackFieldName, ObjVal("deep"))>>
  /\ parse.event.Exception = <<Exc("deep", EmbeddedTrace)>>

\* the context of the report: the "payload" entry of Contexts for the writers
\* with breadcrumbs (no entry: an empty mapping), Extra for the hub-only one
ReportContext ==
  IF parse.parser = "parseLogEventHub" THEN parse.event.Extra
  ELSE IF "payload" \in DOMAIN parse.event.Contexts THEN parse.event.Contexts["payload"]
  ELSE EmptyMap

\* the keys of the parsed record outside the given ones, and the rendering
\* of the last value a key has
KeysOutside(recognized) ==
  {ParsedMembers[k].key : k \in 1..Len(ParsedMembers)} \ recognized
LastValueString(key) ==
  LET vs == ValuesOf(ParsedMembers, key) IN ValueString(vs[Len(vs)])

ContextIsKeysOutside(recognized) ==
  /\ DOMAIN ReportContext = KeysOutside(recognized)
  /\ \A key \in KeysOutside(recognized) : ReportContext[key] = LastValueString(key)
  /\ (KeysOutside(recognized) = {} /\ parse.parser = "parseLogEvent")
       => parse.event.Contexts = EmptyMap

\* C14 as stated: in every report a parser builds, the context maps each key
\* that is not the message, error or error-with-trace key to the string
\* rendering of its value and holds none of these three keys; with no such
\* key there is no payload entry.
C14_ContextIsUnrecognizedKeys ==
  (parse.pc = "done" /\ parse.ok)
    => ContextIsKeysOutside({MessageFieldName, ErrorFieldName, ErrorStackFieldName})

\* C14 amended: that holds for the writers with breadcrumbs; the hub-only
\* writer's context holds each key that is not the message, error, level or
\* time key, so it leaves the level out and keeps an error-with-trace key as
\* an ordinary entry.
C14_ContextPerParser ==
  (parse.pc = "done" /\ parse.ok)
    => IF parse.parser = "parseLogEvent"
         THEN ContextIsKeysOutside({MessageFieldName, ErrorFieldName, ErrorStackFieldName})
         ELSE ContextIsKeysOutside({MessageFieldName, ErrorFieldName, LevelFieldName, "time"})

C14_Witness ==
  /\ ParsedBy("parseLogEventHub")
  /\ parse.ok
  /\ parse.data.fields = <<Pair(LevelFieldName, StrVal("error")),
                           Pair("category", StrVal("db")),
                           Pair(ErrorStackFieldName, ObjVal("deep"))>>
  /\ DOMAIN parse.event.Extra = {"category", ErrorStackFieldName}
  /\ parse.event.Extra["category"] = "db"

\* C15: convertValue is total on booleans, integers, text, byte sequences,
\* structs, slices, maps, pointers and nulls nested to a bounded depth: it
\* never panics, also for the untyped nil, a typed nil pointer and a nil
\* interface inside a slice or map; a null gives "" and a pointer gives the
\* conversion of what it points to.
C15_ConverterIsTotal ==
  conv.pc = "done" =>
    /\ ~conv.result.panic
    /\ conv.v = Nil => conv.result.s = ""
    /\ (conv.v.kind = "ptr" /\ ~conv.v.isNil) => conv.result = convertValue(conv.v.elem)

\* strconv's parsing of a decimal text, over the integers of the model
ParseDecimal(s) ==
  IF \E n \in Numbers : FormatInt(n) = s
    THEN [ok |-> TRUE, n |-> CHOOSE n \in Numbers : FormatInt(n) = s]
    ELSE [ok |-> FALSE, n |-> Small(0)]

\* C16: for an integer of any width and signedness convertValue returns the
\* canonical decimal text of the value, and parsing that text gives the
\* value back, also for unsigned values above the signed 64-bit maximum.
C16_IntegersRoundTrip ==
  (conv.pc = "done" /\ conv.v.kind \in IntTypes)
    => /\ ~conv.result.panic
       /\ conv.result.s = FormatInt(conv.v.n)
       /\ ParseDecimal(conv.result.s) = [ok |-> TRUE, n |-> conv.v.n]

FirstCall == run.call["first"]
SecondCall == run.call["second"]
ObjectsOf(me) == {me.objs.event, me.objs.payload}

Alone(me) ==
  CASE me.op = "Write" -> Write(run.built, me.data)
    [] me.op = "WriteLevel" -> WriteLevel(run.built, me.level, me.data)
    [] me.op = "Close" -> Close(run.built)

\* C18: through every sequence and interleaving of Write, WriteLevel and
\* Close the Writer's enabled levels, breadcrumb flag and flush timeout stay
\* as built, and every call that returned made the transport calls it makes
\* when run alone.
C18_PolicyFixedAtConstruction ==
  /\ run.w = run.built
  /\ \A c \in CallIds :
       run.call[c].pc = "returned" => run.call[c].calls = Alone(run.call[c]).calls

C18_Witness ==
  /\ ~run.sameGoroutine
  /\ FirstCall.op = "WriteLevel"
  /\ FirstCall.level = FatalLevel
  /\ FirstCall.pc = "returned"
  /\ Len(FirstCall.calls) = 2
  /\ FirstCall.calls[2] = Flush(run.built.flushTimeout)
  /\ SecondCall.op = "Write"
  /\ SecondCall.pc = "crumb"
  /\ SecondCall.objs.event < FirstCall.objs.event
  /\ run.w = run.built

\* C19: in every sequence of log calls on the zerolog, zap and slog adapters
\* the logger, level and fields a log call works on and writes are those set
\* during that call, whatever an earlier call left in the pooled object.
C19_PooledContextIsReset ==
  /\ pool.pc = "open" => pool.objs[pool.obj] = pool.want
  /\ pool.pc = "sent" => pool.logged = pool.want

C19_Witness ==
  /\ pool.adapter = "zap"
  /\ pool.pc = "sent"
  /\ pool.made = {"x1"}
  /\ pool.stale = [target |-> "L1", level |-> "error", fields |-> <<"a">>]
  /\ pool.logged = [target |-> "L2", level |-> "debug", fields |-> <<>>]

\* C20: a Writer built without WithLevels forwards exactly the records at
\* error, fatal and panic level: one CaptureEvent for each of them and none
\* for any other record; with breadcrumb mode off a debug, info or warn
\* record causes no transport call at all.
C20_DefaultLevelsForwarded ==
  (IsSinkCall /\ options.levels = <<>> /\ LevelParses)
    => /\ Len(Captures) = IF SourceLevel \in {ErrorLevel, FatalLevel, PanicLevel} THEN 1 ELSE 0
       /\ (~options.breadcrumbs /\ SourceLevel \in {DebugLevel, InfoLevel, WarnLevel})
            => calls = <<>>

C20_Witness ==
  /\ IsSinkCall
  /\ op = "Write"
  /\ options = NoOptions
  /\ writer.impl = "HubBreadcrumbs"
  /\ data.fields = <<Pair(LevelFieldName, StrVal("error")),
                     Pair(MessageFieldName, StrVal("boom"))>>
  /\ Len(calls) = 1
  /\ calls[1].fn = "CaptureEvent"
  /\ calls[1].event.Message = "boom"

\* ---------------------------------------------------------------- C21
\* C21: Hook.Run on a fatal-level or panic-level event makes one
\* capture-event call and then one flush call, and a flush is never made
\* without a capture-event call before it in the same Run.
C21_FatalForwardsThenFlushes ==
  hook.pc = "done" =>
    /\ hook.level \in {FatalLevel, PanicLevel} =>
         /\ Len(hook.calls) = 2
         /\ hook.calls[1].fn = "CaptureEvent"
         /\ hook.calls[2] = Flush(HookFlushTimeoutSeconds)
    /\ \A i \in 1..Len(hook.calls) :
         hook.calls[i].fn = "Flush" =>
           \E j \in 1..(i - 1) : hook.calls[j].fn = "CaptureEvent"

\* ---------------------------------------------------------------- C22
\* C22: Hook.Run returns normally for every level and every transport state:
\* with no client bound, and with a buffer that does not decode, it does not
\* panic (it makes no call on the absent client).
C22_RunNeverPanics ==
  hook.pc = "done" => ~hook.panicked

\* ---------------------------------------------------------------- C23
\* the report convertEvent builds for the event of the hook's call
HookRecord == convertEvent(hook.impl, hook.buf, hook.fields, hook.level, hook.message)

\* C23: for an event with distinct keys whose buffer decodes, convertEvent
\* visits every field: a field holding an error is one exception entry with
\* the converter's string for it and the trimmed trace, and is not in Extra;
\* every other field is in Extra under its key with its value; and Message
\* is the message argument.
C23_EveryFieldVisited ==
  LET fs == hook.fields
      r == HookRecord
      distinct == \A i, j \in 1..Len(fs) : fs[i].key = fs[j].key => i = j IN
  (hook.pc = "done" /\ hook.buf.decodes /\ distinct) =>
    /\ r.Message = hook.message
    /\ \A i \in 1..Len(fs) :
         IF fs[i].value.kind = "error"
           THEN /\ Exc(convertValue(Buffered(fs[i].value)).s, TrimmedTrace) \in r.Exception
                /\ fs[i].key \notin DOMAIN r.Extra
           ELSE /\ fs[i].key \in DOMAIN r.Extra
                /\ r.Extra[fs[i].key] = fs[i].value

\* ---------------------------------------------------------------- C24
\* the argument of the most recent SetGlobalLogger, the dummy adapter before any
MostRecent == IF global.sets = <<>> THEN "dummy.Adapter" ELSE global.sets[Len(global.sets)]

\* C24: Logger() returns the dummy adapter before any SetGlobalLogger and the
\* argument of the most recent SetGlobalLogger after; Ctx(ctx) returns the
\* logger ctx holds under the adapters key when it holds one, and what
\* Logger() returns otherwise; and neither call changes the global logger.
C24_GlobalLogger ==
  /\ global.op = "Logger" => global.result = MostRecent
  /\ global.op = "Ctx" =>
       global.result = IF global.arg \in {"dummy.Adapter", "zerolog.Adapter", "zap.Adapter"}
                         THEN global.arg ELSE MostRecent
  /\ global.op \in {"Logger", "Ctx"} => global.defaultLogger = global.before

\* two loggers were installed in turn, and Ctx was called on a context that
\* holds no logger
C24_Witness ==
  /\ Len(global.sets) = 2
  /\ global.sets[1] = "zap.Adapter"
  /\ global.sets[2] = "zerolog.Adapter"
  /\ global.op = "Ctx"
  /\ global.arg = "other"
  /\ global.result = "zerolog.Adapter"

\* ---------------------------------------------------------------- C25
\* C25: a Write or WriteLevel call flushes at most once, and only right
\* after forwarding a record whose originating level is fatal or panic:
\* never when the record was dropped or left as a breadcrumb, never for a
\* forwarded debug, info, warn or error record.  Of the other operations
\* only Close flushes.
C25_FlushOnlyAfterFatalForward ==
  /\ IsSinkCall =>
       /\ Len(Flushes) <= 1
       /\ Len(Flushes) = 1 =>
            /\ Len(calls) = 2
            /\ calls[1].fn = "CaptureEvent"
            /\ calls[2].fn = "Flush"
            /\ LevelParses
            /\ SourceLevel \in {FatalLevel, PanicLevel}
  /\ (phase = "done" /\ Len(Flushes) > 0 /\ ~IsSinkCall) => op = "Close"

\* WriteLevel forwarded a panic record and flushed after it
C25_Witness ==
  /\ IsSinkCall
  /\ op = "WriteLevel"
  /\ level = PanicLevel
  /\ Len(calls) = 2
  /\ calls[1].fn = "CaptureEvent"
  /\ calls[1].event.Level = LevelFatal
  /\ calls[2] = Flush(FlushTimeoutSeconds)

\* ---------------------------------------------------------------- C26
\* C26: for a record whose level member names level L, Write(data) makes the
\* transport calls WriteLevel(L, data) makes on the same writer: the same
\* routing, the same report (severity, message, context, exceptions) and the
\* same flush.
C26_SinksAgree ==
  (/\ IsSinkCall
   /\ op = "Write"
   /\ writer.impl # "Hub"
   /\ HasLevelMember
   /\ ~parseLogLevel(data).err)
    => calls = WriteLevel(writer, parseLogLevel(data).lvl, data).calls

\* ---------------------------------------------------------------- C27
\* the members of the record of the last call, the keys it has outside the
\* message and error keys, and the string of the last value of a key
RecordMembers == ForEachMembers(data)
RecordContextKeys ==
  {RecordMembers[k].key : k \in 1..Len(RecordMembers)}
    \ {MessageFieldName, ErrorFieldName, ErrorStackFieldName}
RecordString(key) ==
  LET vs == ValuesOf(RecordMembers, key) IN
  IF vs = <<>> THEN "" ELSE ValueString(vs[Len(vs)])

\* C27: the breadcrumb left for a record of a level that is not enabled has
\* the record's message, the severity mapped from the record's level, the
\* record's context fields as its data, and the record's category member as
\* its category (none when the record has no such string).
C27_BreadcrumbCarriesRecord ==
  (IsSinkCall /\ Len(Breadcrumbs) = 1) =>
    LET b == Breadcrumbs[1].event IN
    /\ b.Message = RecordString(MessageFieldName)
    /\ LevelParses
    /\ b.Level = TargetOf(SourceLevel)
    /\ DOMAIN b.Data = RecordContextKeys
    /\ \A key \in RecordContextKeys : b.Data[key] = RecordString(key)
    /\ b.Category = RecordString("category")

\* ---------------------------------------------------------------- C28
\* no Context is held by two log calls in flight, nor held by one while it
\* is in the pool (where a later acquisition would receive it)
HeldByOne ==
  /\ \A c1, c2 \in CallIds :
       (c1 # c2 /\ InFlight(c1) /\ InFlight(c2)) => own.call[c1].obj # own.call[c2].obj
  /\ \A c \in CallIds : InFlight(c) => own.free[own.call[c].obj] = 0
  /\ \A x \in ObjectIds : own.free[x] <= 1

\* C28: in every interleaving of concurrent log calls on one adapter a
\* pooled Context is held by at most one call in flight, and every terminal
\* method that has ended has returned the Context to the pool exactly once.
C28_PoolOwnership ==
  /\ HeldByOne
  /\ \A c \in CallIds : own.call[c].pc \in {"returned", "panicked"} => own.call[c].puts = 1

\* C28 amended: on the zerolog, zap and slog adapters a pooled Context is
\* held by at most one call in flight and is in the pool at most once; on
\* every adapter a terminal method that returns has returned the Context
\* exactly once and one that panics has not returned it.
C28_OwnershipWhereContextsDiffer ==
  /\ own.adapter \in Adapters => HeldByOne
  /\ \A c \in CallIds :
       /\ own.call[c].pc = "returned" => own.call[c].puts = 1
       /\ own.call[c].pc = "panicked" => own.call[c].puts = 0

\* on zap, one goroutine's Msgf has returned its Context and the other
\* goroutine's call has received that Context from the pool
C28_Witness ==
  /\ own.adapter = "zap"
  /\ own.call["first"].pc = "returned"
  /\ own.call["first"].method = "Msgf"
  /\ own.call["second"].pc = "open"
  /\ own.call["second"].obj = own.call["first"].obj
  /\ own.made = {1, 2}

\* ---------------------------------------------------------------- C29
\* C29: on the zap and slog adapters a.Ctx(a.WithContext(ctx)) is a, for a
\* context with or without a logger attached: when a.WithContext(ctx) is
\* followed by a.Ctx on the context it returned, Ctx returns a and not the
\* adapter of the backend's default logger.
C29_ContextRoundTrip ==
  \A i \in 2..Len(adp.calls) :
    (/\ adp.calls[i].op = "Ctx"
     /\ adp.calls[i - 1].op = "WithContext"
     /\ adp.calls[i].a = adp.calls[i - 1].a)
      => adp.calls[i].result = adp.calls[i].a

\* ---------------------------------------------------------------- C30
\* the named method of each of the six levels
NamedMethodOf(l) ==
  CASE l = DebugLevel -> "Debug"
    [] l = InfoLevel -> "Info"
    [] l = WarnLevel -> "Warn"
    [] l = ErrorLevel -> "Error"
    [] l = FatalLevel -> "Fatal"
    [] l = PanicLevel -> "Panic"

\* C30: on the zap adapter, for each of debug, info, warn, error, fatal and
\* panic, WithLevel(L) starts the message at the zap level at which the named
\* method of L starts it.
C30_WithLevelAgreesWithNamed ==
  adp.backend = "zap" =>
    \A i \in 1..Len(adp.calls) :
      (adp.calls[i].op = "WithLevel" /\ adp.calls[i].arg \in MappedLevels)
        => adp.calls[i].result = NamedLevel("zap", NamedMethodOf(adp.calls[i].arg))

====
